---- MODULE Spec2Model ----
(***************************************************************************)
(* Dormitory Finance API (src/main.py, src/schemas.py).                    *)
(*                                                                         *)
(* The state is the "transaction" collection of the document store, the    *)
(* process environment (ADMIN_TOKEN, the store handle db) and the requests *)
(* in flight.  Every route handler is one action.  delete_transaction is   *)
(* split at its single store call, so that several DELETE requests can be  *)
(* in flight at once; the other handlers run between those steps.          *)
(*                                                                         *)
(* Encoding.  Python None is the marker None for strings and a missing     *)
(* key for document fields (dict.get gives None for both).  Date-times are *)
(* the integers 1..MaxTime and datetime.min is 0.  An ObjectId is a        *)
(* positive integer n, rendered by str() as "oid" followed by n.           *)
(***************************************************************************)
EXTENDS Integers, Sequences, FiniteSets, TLC

(* ------------------------------ bounds --------------------------------- *)
\* number of ObjectIds the store hands out (caps the collection's size)
MaxOid == 3
\* date-time values 1..MaxTime
MaxTime == 2
\* Query(100, ge=1, le=500) scaled to the size of the collection modelled:
\* the default page size and the largest page size accepted
DefaultLimit == 2
MaxLimit == 3

(* ----------------------------- constants ------------------------------- *)
None == "None"
DatetimeMin == 0
MinLimit == 1
COLLECTION == "transaction"

Times == 1..MaxTime
\* datetime.now() of the store layer at an insert
Now == MaxTime
Oids == 1..MaxOid
\* slots for the DELETE requests in flight together
Workers == {"w1", "w2"}
Tipe == {"pemasukan", "pengeluaran"}

VARIABLES
  db,           \* database.db: "connected", or None when no store is configured
  env,          \* os.environ: ADMIN_TOKEN, DATABASE_URL, DATABASE_NAME (None when unset)
  store,        \* db[COLLECTION]: the documents, in natural (insertion) order
  nextOid,      \* the next ObjectId the store generates
  req,          \* the request whose handler took the last step
  resp,         \* its response [status, body]; status 0 while it is in flight
  pc,           \* per DELETE slot: "idle", or "call" (checks passed, delete_one not yet called)
  dreq,         \* per DELETE slot: tx_id of the request in flight
  deleted,      \* history: per ObjectId, the number of delete_one calls with deleted_count 1
  created       \* history: <<id, body submitted>> of records created and not deleted since

vars == <<db, env, store, nextOid, req, resp, pc, dreq, deleted, created>>

(* --------------------------- pure helpers ------------------------------ *)
\* bool(s) of an Optional[str]
Truthy(s) == s # None /\ s # ""

\* d.get(k, default)
Get(d, k, default) == IF k \in DOMAIN d THEN d[k] ELSE default

\* d.get(k) is not None
Has(d, k) == k \in DOMAIN d

\* str(ObjectId)
Str(oid) == "oid" \o ToString(oid)

\* the strings bson.ObjectId() accepts
ValidOidStrings == {Str(n) : n \in Oids}

\* bson.ObjectId(tx_id): the ObjectId, or 0 when InvalidId is raised
ObjectId(tx_id) ==
  IF tx_id \in ValidOidStrings
    THEN CHOOSE n \in Oids : Str(n) = tx_id
    ELSE 0

\* admin_token = os.getenv("ADMIN_TOKEN"); bool(admin_token) and token == admin_token
is_admin(token) == Truthy(env.ADMIN_TOKEN) /\ token = env.ADMIN_TOKEN

(* ------------------------ TransactionIn model -------------------------- *)
RequiredFields == {"tanggal", "keterangan", "jumlah", "tipe"}
OptionalFields == {"penghuni", "kamar"}
TxFields == RequiredFields \cup OptionalFields

\* TransactionIn without ge=0 on jumlah
ValidTransactionInNoGe(body) ==
  /\ {"tanggal", "keterangan", "jumlah", "tipe"} \subseteq DOMAIN body
  /\ body.tanggal \in Times
  /\ body.tipe \in Tipe

\* pydantic validation of the request body against TransactionIn
ValidTransactionIn(body) ==
  /\ RequiredFields \subseteq DOMAIN body
  /\ body.tanggal \in Times
  /\ body.jumlah >= 0
  /\ body.tipe \in Tipe

\* schemas.Transaction(**tx.model_dump()): the same constraints again
ValidTransactionSchema(tx) ==
  /\ RequiredFields \subseteq DOMAIN tx
  /\ tx.jumlah >= 0
  /\ tx.tipe \in Tipe

\* tx.model_dump(): the six declared fields, absent optionals as None,
\* undeclared fields dropped
model_dump(body) ==
  [k \in TxFields |-> IF k \in DOMAIN body THEN body[k] ELSE None]

(* ------------------------ document store adapter ----------------------- *)
\* documents of a sequence that match an equality filter
RECURSIVE Matching(_, _)
Matching(docs, filt) ==
  IF docs = <<>> THEN <<>>
  ELSE LET d == Head(docs)
           rest == Matching(Tail(docs), filt)
       IN IF \A k \in DOMAIN filt : Has(d, k) /\ d[k] = filt[k]
            THEN <<d>> \o rest
            ELSE rest

\* order-preserving subsequences of s of length n
RECURSIVE SubSeqs(_, _)
SubSeqs(s, n) ==
  IF n = 0 THEN {<<>>}
  ELSE IF Len(s) < n THEN {}
  ELSE {<<Head(s)>> \o t : t \in SubSeqs(Tail(s), n - 1)} \cup SubSeqs(Tail(s), n)

\* get_documents(collection, filter, limit): the possible results.  limit = 0
\* stands for limit=None (no cap).  Which documents a capped find returns is
\* the store's choice.
get_documents(filt, limit) ==
  LET m == Matching(store, filt)
  IN IF limit = 0 \/ Len(m) <= limit THEN {m} ELSE SubSeqs(m, limit)

\* create_document(collection, tx): the document inserted
NewDocument(tx, now) ==
  [k \in TxFields \cup {"_id", "created_at", "updated_at"} |->
     IF k = "_id" THEN nextOid
     ELSE IF k \in {"created_at", "updated_at"} THEN now
     ELSE model_dump(tx)[k]]

\* db[COLLECTION].delete_one({"_id": oid}): the collection afterwards
RECURSIVE delete_one(_, _)
delete_one(docs, oid) ==
  IF docs = <<>> THEN <<>>
  ELSE IF Has(Head(docs), "_id") /\ Head(docs)["_id"] = oid THEN Tail(docs)
  ELSE <<Head(docs)>> \o delete_one(Tail(docs), oid)

\* res.acknowledged taken for the count: 1 whether or not a document matched
acknowledged_count(docs, oid) == 1

\* res.deleted_count of that call
deleted_count(docs, oid) == Len(docs) - Len(delete_one(docs, oid))

(* --------------------------- list helpers ------------------------------ *)
\* the tipe parameter never put into the filter
FiltIgnored(tipe) == << >>

\* filt = {}; if tipe: filt["tipe"] = tipe
Filt(tipe) == IF Truthy(tipe) THEN [tipe |-> tipe] ELSE << >>

\* d.get("tanggal") or d.get("created_at") or datetime.min
sort_key(d) ==
  IF Has(d, "tanggal") THEN d.tanggal
  ELSE IF Has(d, "created_at") THEN d.created_at
  ELSE DatetimeMin

\* insert d behind every element whose key is >= its own
RECURSIVE InsertDesc(_, _)
InsertDesc(s, d) ==
  IF s = <<>> THEN <<d>>
  ELSE IF sort_key(Head(s)) >= sort_key(d)
    THEN <<Head(s)>> \o InsertDesc(Tail(s), d)
    ELSE <<d>> \o s

\* sorted(docs, key=sort_key) without reverse=True: stable, ascending
RECURSIVE InsertAsc(_, _)
InsertAsc(s, d) ==
  IF s = <<>> THEN <<d>>
  ELSE IF sort_key(Head(s)) <= sort_key(d)
    THEN <<Head(s)>> \o InsertAsc(Tail(s), d)
    ELSE <<d>> \o s

RECURSIVE SortedIntoAsc(_, _)
SortedIntoAsc(acc, docs) ==
  IF docs = <<>> THEN acc
  ELSE SortedIntoAsc(InsertAsc(acc, Head(docs)), Tail(docs))

sorted_no_reverse(docs) == SortedIntoAsc(<<>>, docs)

\* sorted(docs, key=sort_key, reverse=True): stable, descending
RECURSIVE SortedInto(_, _)
SortedInto(acc, docs) ==
  IF docs = <<>> THEN acc
  ELSE SortedInto(InsertDesc(acc, Head(docs)), Tail(docs))

sorted(docs) == SortedInto(<<>>, docs)

\* d["id"] = str(d.get("id")): the id read from the wrong key
NormalizeWrongKey(d) ==
  [k \in (DOMAIN d \ {"_id"}) \cup {"id"} |->
     IF k = "id" THEN None ELSE d[k]]

\* d["id"] = str(d.get("_id")); d.pop("_id", None)
Normalize(d) ==
  [k \in (DOMAIN d \ {"_id"}) \cup {"id"} |->
     IF k = "id" THEN (IF Has(d, "_id") THEN Str(d["_id"]) ELSE None)
     ELSE d[k]]

NormalizeAll(docs) == [i \in 1..Len(docs) |-> Normalize(docs[i])]

\* sum(d.get("jumlah", 0) for d in docs if d.get("tipe") == tipe)
RECURSIVE SumJumlah(_, _)
SumJumlah(docs, tipe) ==
  IF docs = <<>> THEN 0
  ELSE (IF Get(Head(docs), "tipe", None) = tipe
          THEN Get(Head(docs), "jumlah", 0) ELSE 0)
       + SumJumlah(Tail(docs), tipe)

(* ------------------------------ inputs --------------------------------- *)
TxFull ==
  [tanggal |-> MaxTime, penghuni |-> "ani", kamar |-> "a1",
   keterangan |-> "sewa", jumlah |-> 5, tipe |-> "pemasukan"]
TxMin ==
  [tanggal |-> 1, keterangan |-> "listrik", jumlah |-> 3, tipe |-> "pengeluaran"]
TxNegative == [TxMin EXCEPT !.jumlah = -1]
TxBadTipe == [TxMin EXCEPT !.tipe = "lain"]
TxNoKeterangan == [tanggal |-> 1, jumlah |-> 3, tipe |-> "pemasukan"]

\* request bodies of POST /api/transactions
Bodies == {TxFull, TxMin, TxNegative, TxBadTipe, TxNoKeterangan}

\* values of the X-Admin-Token header (None: header absent)
Tokens == {None, "", "secret"}

\* path parameter of DELETE: every well-formed id, and a string that is no ObjectId
TxIds == ValidOidStrings \cup {"abc"}

\* query strings of GET /api/transactions
Queries ==
  {<< >>}
  \cup {[limit |-> n] : n \in {MinLimit - 1, MinLimit, MaxLimit, MaxLimit + 1}}
  \cup {[tipe |-> t] : t \in Tipe \cup {"lain"}}

\* a collection filled by other means than this API: a document without
\* tanggal, and one without tanggal, timestamps and jumlah
LegacyDocs ==
  <<[_id |-> 1, keterangan |-> "lama", jumlah |-> 2, tipe |-> "pemasukan", created_at |-> 1],
    [_id |-> 2, keterangan |-> "lama", tipe |-> "pengeluaran"]>>

(* ------------------------------ responses ------------------------------ *)
Response(status, body) == [status |-> status, body |-> body]
Detail(status, text) == Response(status, [detail |-> text])
Pending == Response(0, [detail |-> "in flight"])
Forbidden == Detail(403, "Hanya admin yang boleh mengedit")
ValidationError == Detail(422, "validation error")
ServerError == Detail(500, "Internal Server Error")

(* -------------------------------- Init --------------------------------- *)
Init ==
  /\ db \in {"connected", None}
  /\ env \in [ADMIN_TOKEN : {None, "", "secret"},
              DATABASE_URL : {None, "mongodb://"},
              DATABASE_NAME : {None, "asrama"}]
  /\ db = "connected" => Truthy(env.DATABASE_URL) /\ Truthy(env.DATABASE_NAME)
  /\ store \in {<< >>, LegacyDocs}
  /\ db = None => store = << >>
  /\ nextOid = Len(store) + 1
  /\ req = [route |-> "start"]
  /\ resp = Pending
  /\ pc = [w \in Workers |-> "idle"]
  /\ dreq = [w \in Workers |-> None]
  /\ deleted = [n \in Oids |-> 0]
  /\ created = {}

(* ------------------------------- routes -------------------------------- *)
\* GET /
read_root ==
  /\ req' = [route |-> "root"]
  /\ resp' = Response(200, [message |-> "Backend Keuangan Asrama aktif"])
  /\ UNCHANGED <<db, env, store, nextOid, pc, dreq, deleted, created>>

\* the response of GET /test; listOk: db.list_collection_names() did not raise
TestResponse(listOk) ==
  [database |->
     IF db = None THEN "Available but not initialized"
     ELSE IF listOk THEN "Connected & Working"
     ELSE "Connected but Error",
   database_url |-> IF Truthy(env.DATABASE_URL) THEN "Set" ELSE "Not Set",
   database_name |-> IF Truthy(env.DATABASE_NAME) THEN "Set" ELSE "Not Set",
   connection_status |-> IF db = None THEN "Not Connected" ELSE "Connected",
   collections |-> IF db # None /\ listOk /\ store # << >> THEN <<COLLECTION>> ELSE << >>]

\* GET /test
test_database ==
  /\ \E listOk \in BOOLEAN :
       /\ db = None => listOk
       /\ resp' = Response(200, TestResponse(listOk))
  /\ req' = [route |-> "test"]
  /\ UNCHANGED <<db, env, store, nextOid, pc, dreq, deleted, created>>

\* limit: int = Query(100, ge=1, le=500)
Limit(q) == IF "limit" \in DOMAIN q THEN q.limit ELSE DefaultLimit

\* tipe: Optional[str] = Query(None, pattern="^(pemasukan|pengeluaran)$")
TipeParam(q) == IF "tipe" \in DOMAIN q THEN q.tipe ELSE None

ValidQuery(q) ==
  /\ Limit(q) >= MinLimit /\ Limit(q) <= MaxLimit
  /\ TipeParam(q) # None => TipeParam(q) \in Tipe

\* GET /api/transactions
list_transactions ==
  /\ \E q \in Queries :
       /\ req' = [route |-> "list", query |-> q]
       /\ IF ~ValidQuery(q) THEN resp' = ValidationError
          ELSE IF db = None THEN resp' = ServerError
          ELSE \E docs \in get_documents(Filt(TipeParam(q)), Limit(q)) :
                 resp' = Response(200, [items |-> NormalizeAll(sorted(docs))])
  /\ UNCHANGED <<db, env, store, nextOid, pc, dreq, deleted, created>>

\* saldo computed as the sum of the two totals
StatsSaldoSum(docs) ==
  LET pemasukan == SumJumlah(docs, "pemasukan")
      pengeluaran == SumJumlah(docs, "pengeluaran")
  IN [pemasukan |-> pemasukan, pengeluaran |-> pengeluaran,
      saldo |-> pemasukan + pengeluaran]

\* the body of the response of GET /api/stats
Stats(docs) ==
  LET pemasukan == SumJumlah(docs, "pemasukan")
      pengeluaran == SumJumlah(docs, "pengeluaran")
  IN [pemasukan |-> pemasukan, pengeluaran |-> pengeluaran,
      saldo |-> pemasukan - pengeluaran]

\* GET /api/stats
stats ==
  /\ req' = [route |-> "stats"]
  /\ IF db = None THEN resp' = ServerError
     ELSE \E docs \in get_documents(<< >>, 0) : resp' = Response(200, Stats(docs))
  /\ UNCHANGED <<db, env, store, nextOid, pc, dreq, deleted, created>>

\* the collection after replace_one({}, doc, upsert=True): the first document
\* is replaced and keeps its _id; an empty collection gets the document
Upsert(docs, doc) ==
  IF docs = << >> THEN <<doc>>
  ELSE <<[k \in DOMAIN doc |-> IF k = "_id" THEN Head(docs)["_id"] ELSE doc[k]]>>
       \o Tail(docs)

\* create_transaction writing with an upsert instead of an insert
create_transaction_upsert ==
  \E body \in Bodies, token \in Tokens :
    /\ req' = [route |-> "create", token |-> token, body |-> body]
    /\ IF ~ValidTransactionIn(body)
         THEN resp' = ValidationError /\ UNCHANGED <<store, nextOid, created>>
       ELSE IF ~is_admin(token)
         THEN resp' = Forbidden /\ UNCHANGED <<store, nextOid, created>>
       ELSE IF ~ValidTransactionSchema(model_dump(body)) \/ db = None
         THEN resp' = ServerError /\ UNCHANGED <<store, nextOid, created>>
       ELSE /\ nextOid <= MaxOid
            /\ store' = Upsert(store, NewDocument(body, Now))
            /\ nextOid' = nextOid + 1
            /\ created' = created \cup {<<Str(nextOid), body>>}
            /\ resp' = Response(201, [id |-> Str(nextOid),
                                      message |-> "Transaksi berhasil ditambahkan"])
    /\ UNCHANGED <<db, env, pc, dreq, deleted>>

\* POST /api/transactions.  The body is validated against TransactionIn
\* before the handler runs; is_admin is the handler's first statement.
create_transaction ==
  \E body \in Bodies, token \in Tokens :
    /\ req' = [route |-> "create", token |-> token, body |-> body]
    /\ IF ~ValidTransactionIn(body)
         THEN resp' = ValidationError /\ UNCHANGED <<store, nextOid, created>>
       ELSE IF ~is_admin(token)
         THEN resp' = Forbidden /\ UNCHANGED <<store, nextOid, created>>
       ELSE IF ~ValidTransactionSchema(model_dump(body)) \/ db = None
         THEN resp' = ServerError /\ UNCHANGED <<store, nextOid, created>>
       ELSE /\ nextOid <= MaxOid
            /\ store' = Append(store, NewDocument(body, Now))
            /\ nextOid' = nextOid + 1
            /\ created' = created \cup {<<Str(nextOid), body>>}
            /\ resp' = Response(201, [id |-> Str(nextOid),
                                      message |-> "Transaksi berhasil ditambahkan"])
    /\ UNCHANGED <<db, env, pc, dreq, deleted>>

\* whether a document with this _id is in the collection
InStore(oid) == \E i \in 1..Len(store) : Get(store[i], "_id", 0) = oid

DeleteRequest(tx_id, token, present) ==
  [route |-> "delete", tx_id |-> tx_id, token |-> token, present |-> present]

\* DELETE /api/transactions/{tx_id}, up to the store call: is_admin, db is
\* None, bson.ObjectId(tx_id).  present records whether the id is in the
\* collection now.
delete_begin(w) ==
  /\ pc[w] = "idle"
  /\ \E tx_id \in TxIds, token \in Tokens :
       /\ req' = DeleteRequest(tx_id, token, InStore(ObjectId(tx_id)))
       /\ IF ~is_admin(token)
            THEN resp' = Forbidden /\ UNCHANGED <<pc, dreq>>
          ELSE IF db = None
            THEN resp' = Detail(500, "Database tidak tersedia") /\ UNCHANGED <<pc, dreq>>
          ELSE IF ObjectId(tx_id) = 0
            THEN resp' = ServerError /\ UNCHANGED <<pc, dreq>>
          ELSE /\ resp' = Pending
               /\ pc' = [pc EXCEPT ![w] = "call"]
               /\ dreq' = [dreq EXCEPT ![w] = tx_id]
  /\ UNCHANGED <<db, env, store, nextOid, deleted, created>>

\* the comparison inverted: 404 when a document was deleted
DeleteResponseInverted(count) ==
  IF count # 0
    THEN Detail(404, "Transaksi tidak ditemukan")
    ELSE Response(200, [message |-> "Transaksi dihapus"])

\* if res.deleted_count == 0: raise HTTPException(404); return the message
DeleteResponse(count) ==
  IF count = 0
    THEN Detail(404, "Transaksi tidak ditemukan")
    ELSE Response(200, [message |-> "Transaksi dihapus"])

\* res = db[COLLECTION].delete_one({"_id": ObjectId(tx_id)}) and the response
delete_call(w) ==
  /\ pc[w] = "call"
  /\ LET oid == ObjectId(dreq[w])
         count == deleted_count(store, oid)
     IN /\ store' = delete_one(store, oid)
        /\ deleted' = [deleted EXCEPT ![oid] = @ + count]
        /\ created' = IF count = 0 THEN created
                      ELSE {c \in created : c[1] # dreq[w]}
        /\ req' = DeleteRequest(dreq[w], env.ADMIN_TOKEN, InStore(oid))
        /\ resp' = DeleteResponse(count)
  /\ pc' = [pc EXCEPT ![w] = "idle"]
  /\ dreq' = [dreq EXCEPT ![w] = None]
  /\ UNCHANGED <<db, env, nextOid>>

Next ==
  \/ read_root
  \/ test_database
  \/ list_transactions
  \/ stats
  \/ create_transaction
  \/ \E w \in Workers : delete_begin(w)
  \/ \E w \in Workers : delete_call(w)

Spec == Init /\ [][Next]_vars

(* ------------------------------------------------------------------------ *)
(* Properties                                                                 *)
(* ------------------------------------------------------------------------ *)
Items == resp.body.items
Answered == resp.status # 0
Mutating == req.route \in {"create", "delete"}

\* C1: every POST /api/transactions and DELETE /api/transactions/{id} whose
\* X-Admin-Token is absent or differs from ADMIN_TOKEN, or with ADMIN_TOKEN
\* unset or empty, is answered 403, whatever the body and the store.
C1_ForbiddenWithoutToken ==
  (Mutating /\ Answered /\ ~is_admin(req.token)) => resp.status = 403

\* C1 restricted to requests whose body passes validation (every DELETE, and
\* each POST with a valid body)
C1_ForbiddenWhenBodyValid ==
  (Mutating /\ Answered /\ ~is_admin(req.token)
     /\ (req.route = "create" => ValidTransactionIn(req.body)))
  => resp.status = 403

\* the response holds an item with the id and the submitted fields of c
ListedAsSubmitted(c) ==
  \E i \in 1..Len(Items) :
    /\ Items[i].id = c[1]
    /\ \A k \in DOMAIN c[2] : Has(Items[i], k) /\ Items[i][k] = c[2][k]

CreateSucceeded == req.route = "create" /\ resp.status = 201
DefaultList == req.route = "list" /\ req.query = << >> /\ resp.status = 200

\* C2: a create that succeeds returns a non-empty id, and a GET
\* /api/transactions without parameters lists every record created and not
\* deleted since, with its id and the fields submitted, however many records
\* the collection holds.
C2_CreatedIsListed ==
  /\ CreateSucceeded =>
       /\ resp.body.id \notin {"", None}
       /\ \E c \in created : c[1] = resp.body.id /\ c[2] = req.body
  /\ DefaultList => \A c \in created : ListedAsSubmitted(c)

\* C2 amended: the same, provided the collection holds at most limit records
\* when the list request is served.
C2_CreatedIsListedWithinLimit ==
  /\ CreateSucceeded =>
       /\ resp.body.id \notin {"", None}
       /\ \E c \in created : c[1] = resp.body.id /\ c[2] = req.body
  /\ (DefaultList /\ Len(store) <= DefaultLimit) =>
       \A c \in created : ListedAsSubmitted(c)

\* a default list of a collection filled to the limit, holding a created
\* record whose optional fields were not submitted
C2_Witness ==
  /\ DefaultList
  /\ Len(store) = DefaultLimit
  /\ \E c \in created : c[2] = TxMin

AdminDelete ==
  req.route = "delete" /\ Answered /\ is_admin(req.token) /\ db # None

\* C3: an admin DELETE with a live store answers 404 for any id string that
\* is not in the collection, and 200 for an id that is; the 200 removes
\* exactly that record, so that the id is no longer in the collection.
C3_DeleteNotFoundOrSuccess ==
  /\ [](AdminDelete =>
          IF req.present
            THEN resp.status = 200 /\ ~InStore(ObjectId(req.tx_id))
            ELSE resp.status = 404)
  /\ [][(AdminDelete' /\ req'.present) =>
          store' = delete_one(store, ObjectId(req'.tx_id))]_vars

\* C3 restricted to id strings that bson.ObjectId() accepts
C3_WellFormedId ==
  (AdminDelete /\ req.tx_id \in ValidOidStrings) =>
     IF req.present
       THEN resp.status = 200 /\ ~InStore(ObjectId(req.tx_id))
       ELSE resp.status = 404

\* the documents of the collection that came through the create endpoint
CreatedDocs ==
  {i \in 1..Len(store) :
     Has(store[i], "_id") /\ \E c \in created : c[1] = Str(store[i]["_id"])}

NegativeCreate ==
  req.route = "create" /\ Has(req.body, "jumlah") /\ req.body.jumlah < 0

\* C4: every record persisted through the create endpoint has jumlah >= 0
\* and tipe pemasukan or pengeluaran; a create with a negative jumlah is
\* answered 422 and leaves the collection unchanged.
C4_AmountNonNegative ==
  /\ [](\A i \in CreatedDocs : store[i].jumlah >= 0 /\ store[i].tipe \in Tipe)
  /\ [](NegativeCreate => resp.status = 422)
  /\ [][NegativeCreate' => store' = store]_vars

\* a negative amount sent with the admin token was just refused while the
\* collection holds created records
C4_Witness ==
  /\ NegativeCreate
  /\ is_admin(req.token)
  /\ resp.status = 422
  /\ CreatedDocs # {}

\* sum of jumlah (0 when missing) over the indices in S
RECURSIVE SumOver(_)
SumOver(S) ==
  IF S = {} THEN 0
  ELSE LET i == CHOOSE x \in S : TRUE
       IN (IF Has(store[i], "jumlah") THEN store[i].jumlah ELSE 0) + SumOver(S \ {i})

OfTipe(t) == {i \in 1..Len(store) : Has(store[i], "tipe") /\ store[i].tipe = t}

\* C5: GET /api/stats returns the sum of jumlah over the pemasukan records,
\* the sum over the pengeluaran records (a missing jumlah counts 0) and
\* saldo = pemasukan - pengeluaran; all three are 0 for the empty collection.
C5_StatsSums ==
  (req.route = "stats" /\ resp.status = 200) =>
     /\ resp.body.pemasukan = SumOver(OfTipe("pemasukan"))
     /\ resp.body.pengeluaran = SumOver(OfTipe("pengeluaran"))
     /\ resp.body.saldo = resp.body.pemasukan - resp.body.pengeluaran
     /\ store = << >> =>
          resp.body.pemasukan = 0 /\ resp.body.pengeluaran = 0 /\ resp.body.saldo = 0

\* stats over income, expense and a record without jumlah
C5_Witness ==
  /\ req.route = "stats" /\ resp.status = 200
  /\ resp.body.pemasukan > 0 /\ resp.body.pengeluaran > 0
  /\ resp.body.saldo # 0
  /\ \E i \in 1..Len(store) : ~Has(store[i], "jumlah")

ListAnswered == req.route = "list" /\ resp.status = 200

\* the sort key of a returned item: tanggal, else created_at, else the
\* minimum date-time
ItemKey(item) ==
  IF "tanggal" \in DOMAIN item THEN item.tanggal
  ELSE IF "created_at" \in DOMAIN item THEN item.created_at
  ELSE 0

\* position in the collection of the record with this id string
StorePos(id) ==
  CHOOSE i \in 0..Len(store) :
    IF \E j \in 1..Len(store) : Str(store[j]["_id"]) = id
      THEN i > 0 /\ Str(store[i]["_id"]) = id
      ELSE i = 0

\* C6: the items of every GET /api/transactions response are in descending
\* order of sort key, and there are at most limit of them.
C6_SortedDescending ==
  ListAnswered =>
    /\ \A i, j \in 1..Len(Items) : i < j => ItemKey(Items[i]) >= ItemKey(Items[j])
    /\ Len(Items) <= Limit(req.query)

\* a response in which a record inserted later comes first, ahead of a
\* record without tanggal
C6_Witness ==
  /\ ListAnswered
  /\ \E i, j \in 1..Len(Items) :
       /\ i < j
       /\ ItemKey(Items[i]) > ItemKey(Items[j])
       /\ "tanggal" \notin DOMAIN Items[j]
       /\ StorePos(Items[i].id) > StorePos(Items[j].id)

\* C7: with tipe = t every returned item has tipe t; with tipe omitted no
\* filter is applied: the response holds as many items as the collection
\* has records, up to limit.
C7_TipeFilter ==
  ListAnswered =>
    IF "tipe" \in DOMAIN req.query
      THEN \A i \in 1..Len(Items) : Items[i].tipe = req.query.tipe
      ELSE Len(Items) = IF Len(store) <= Limit(req.query)
                          THEN Len(store) ELSE Limit(req.query)

\* a filtered response, not empty, over a collection that also holds a
\* record of the other type
C7_Witness ==
  /\ ListAnswered
  /\ "tipe" \in DOMAIN req.query
  /\ Len(Items) > 0
  /\ \E i \in 1..Len(store) : store[i].tipe # req.query.tipe

\* C8: of the DELETE requests for one id that run together, at most one
\* observes deleted_count 1 and is answered 200; the others are answered
\* 404, and the record is removed once.
C8_ConcurrentDelete ==
  /\ \A n \in Oids : deleted[n] <= 1 /\ (deleted[n] = 1 => ~InStore(n))
  /\ (AdminDelete /\ req.tx_id \in ValidOidStrings) =>
        /\ resp.status = 200 <=> req.present
        /\ resp.status = 404 <=> ~req.present
        /\ resp.status = 200 => deleted[ObjectId(req.tx_id)] = 1

\* one DELETE of an id was answered 200 while another DELETE of the same id
\* had passed its checks and not yet called the store
C8_Witness ==
  /\ AdminDelete /\ resp.status = 200
  /\ \E w \in Workers : pc[w] = "call" /\ dreq[w] = req.tx_id

\* two documents agree on the six fields
SameFields(a, b) ==
  \A k \in TxFields :
    /\ k \in DOMAIN a <=> k \in DOMAIN b
    /\ k \in DOMAIN a => a[k] = b[k]

\* C9: a record keeps its six fields from its creation to its deletion, and
\* the ids in the collection are pairwise distinct.
C9_Immutable ==
  /\ [](\A i, j \in 1..Len(store) : i # j => store[i]["_id"] # store[j]["_id"])
  /\ [][\A i \in 1..Len(store) : \A j \in 1..Len(store') :
          store[i]["_id"] = store'[j]["_id"] => SameFields(store[i], store'[j])]_vars

\* two created records in the collection, after a delete, just listed
C9_Witness ==
  /\ ListAnswered
  /\ Cardinality(CreatedDocs) >= 2
  /\ \E n \in Oids : deleted[n] = 1

StepCreated == req'.route = "create" /\ resp'.status = 201
StepDeleted == req'.route = "delete" /\ resp'.status = 200

\* s without its i-th element
RemoveAt(s, i) == SubSeq(s, 1, i - 1) \o SubSeq(s, i + 1, Len(s))

\* C10: only a create answered 201 and a delete answered 200 change the
\* collection; the first adds one record, the second removes one record,
\* and the other records stay as they were.
C10_Frame ==
  [][/\ ~(StepCreated \/ StepDeleted) => store' = store
     /\ StepCreated => Len(store') = Len(store) + 1 /\ SubSeq(store', 1, Len(store)) = store
     /\ StepDeleted => \E i \in 1..Len(store) : store' = RemoveAt(store, i)]_vars

\* a delete answered 404 with records in the collection, after another
\* record was deleted
C10_Witness ==
  /\ req.route = "delete" /\ resp.status = 404
  /\ Len(store) >= 2
  /\ \E n \in Oids : deleted[n] = 1

====
